---- MODULE Spec2Model ----
(***************************************************************************)
(* Model of vimiv's image path storage (vimiv/imutils/imstorage.py) and of *)
(* the clamp, cached_method and ignore helpers (vimiv/utils/__init__.py).   *)
(*                                                                         *)
(* A path string is modelled as a pair <<directory, name>>.  An empty      *)
(* directory component means the path is relative; the empty string is     *)
(* <<"", "">>.  Python functions are operators from a storage record       *)
(* [paths, index, emitted] to the storage record after the call; emitted   *)
(* collects the signals sent while one handler runs.                       *)
(***************************************************************************)
EXTENDS Integers, Sequences, FiniteSets, TLC

VARIABLES _paths, _index, cwd, shuffleSetting, emitted, last, before, clampCall, lazy,
          guarded

vars == <<_paths, _index, cwd, shuffleSetting, emitted, last, before, clampCall, lazy,
          guarded>>

storageVars == <<_paths, _index, cwd, shuffleSetting, emitted, last, before>>

\* ---------------------------------------------------------------- bounds
MaxLen == 2
MaxArg == 2
ClampRange == 2
MaxCalls == 3
MaxValue == 2
MaxListed == 2

Dirs == {"d1", "d2"}
Names == {"a", "b", "c"}
NameOrder == <<"a", "b", "c">>
DirContents == {{}, {"b"}, {"a", "b"}, {"a", "b", "c"}}
Modes == {"image", "library"}

\* ----------------------------------------------------------------- paths
EmptyStr == <<"", "">>
NoPath == <<"None", "None">>

RawPaths == {<<"d1", "a">>, <<"", "b">>}
ListedPaths == {<<"d1", "a">>, <<"", "b">>}

AbspathKeepRelative(path, wd) == path

Abspath(path, wd) == IF path[1] = "" THEN <<wd, path[2]>> ELSE path

Dirname(path) == path[1]

AbsList(paths, wd) == [i \in 1..Len(paths) |-> Abspath(paths[i], wd)]

SeqsUpTo(S, n) == UNION {[1..k -> S] : k \in 0..n}

Elems(l) == {l[i] : i \in 1..Len(l)}

\* list.index(x): zero-based position of the first occurrence
ListIndex(l, x) == (CHOOSE i \in 1..Len(l) : l[i] = x /\ \A j \in 1..(i - 1) : l[j] # x) - 1

\* l[i] with Python's negative indices
GetItem(l, i) == IF i >= 0 THEN l[i + 1] ELSE l[Len(l) + i + 1]

PyMod(a, b) == a % b

Min(a, b) == IF a <= b THEN a ELSE b

Max(a, b) == IF a >= b THEN a ELSE b

\* random.shuffle(l) rearranges l in place by some permutation f of its positions
Arrangements(n) == Permutations(1..n)

Rearranged(l, f) == [i \in 1..Len(l) |-> l[f[i]]]

\* files.supported(files.listdir(directory)): the sorted supported files of the
\* directory, whose content is one of DirContents
Listings(dir) ==
  {SelectSeq([i \in 1..Len(NameOrder) |-> <<dir, NameOrder[i]>>], LAMBDA p : p[2] \in S) : S \in DirContents}

\* --------------------------------------------------------------- signals
Signal(name, path, paths) == [sig |-> name, path |-> path, paths |-> paths]

Emit(s, signal) == [s EXCEPT !.emitted = Append(@, signal)]

CountSig(em, name) == Cardinality({i \in 1..Len(em) : em[i].sig = name})

\* --------------------------------------------------------------- storage
Current(s) == IF s.paths # <<>> THEN GetItem(s.paths, s.index) ELSE EmptyStr

SetIndexSilent(s, index, previous) == [s EXCEPT !.index = index]

SetIndex(s, index, previous) ==
  LET t == [s EXCEPT !.index = index]
  IN  IF previous # Current(t) THEN Emit(t, Signal("new_image_opened", Current(t), <<>>)) ELSE t

SetPaths(s, paths) ==
  Emit([s EXCEPT !.paths = paths], Signal("new_images_opened", EmptyStr, paths))

GotoTargetIgnoreCount(index, count) == index

GotoTarget(index, count) == IF count # 0 THEN count ELSE index

Goto(s, index, count) ==
  SetIndex(s, PyMod(GotoTarget(index, count), Len(s.paths) + 1) - 1, NoPath)

PrevIndexForward(i, count, n) == PyMod(i + count, n)

NextIndex(i, count, n) == PyMod(i + count, n)

PrevIndex(i, count, n) == PyMod(i - count, n)

NextCmd(s, count) ==
  IF s.paths # <<>> THEN SetIndex(s, NextIndex(s.index, count, Len(s.paths)), NoPath) ELSE s

PrevCmd(s, count) ==
  IF s.paths # <<>> THEN SetIndex(s, PrevIndex(s.index, count, Len(s.paths)), NoPath) ELSE s

FocusIndexNoFocus(paths, focused, index) == Min(Len(paths) - 1, index)

FocusIndex(paths, focused, index) ==
  IF focused \in Elems(paths) THEN ListIndex(paths, focused) ELSE Min(Len(paths) - 1, index)

\* f is the arrangement drawn by shuffle(_paths)
LoadPaths(s, rawpaths, rawfocused, wd, shuf, f) ==
  LET paths == AbsList(rawpaths, wd)
      focused_path == Abspath(rawfocused, wd)
      s1 == IF shuf THEN [s EXCEPT !.paths = Rearranged(s.paths, f)] ELSE s
      previous == Current(s1)
      s2 == SetPaths(s1, paths)
  IN  SetIndex(s2, FocusIndex(paths, focused_path, s2.index), previous)

LoadSingle(s, path, listing, wd, shuf, f) ==
  IF path \in Elems(s.paths)
  THEN Goto(s, ListIndex(s.paths, path) + 1, 0)
  ELSE LoadPaths(s, listing, path, wd, shuf, f)

NewSearchAnyKind(s, index, mode, incremental) ==
  IF s.paths # <<>> THEN SetIndex(s, index, NoPath) ELSE s

NewSearch(s, index, mode, incremental) ==
  IF s.paths # <<>> /\ ~incremental /\ mode = "image" THEN SetIndex(s, index, NoPath) ELSE s

ClearKeepIndex(s) ==
  Emit([s EXCEPT !.paths = <<>>], Signal("all_images_cleared", EmptyStr, <<>>))

Clear(s) ==
  Emit([s EXCEPT !.paths = <<>>, !.index = 0], Signal("all_images_cleared", EmptyStr, <<>>))

\* ---------------------------------------------------- status modules
Digit(d) == <<"0", "1", "2", "3", "4", "5", "6", "7", "8", "9">>[d + 1]

RECURSIVE StrNat(_)
StrNat(n) == IF n < 10 THEN <<Digit(n)>> ELSE Append(StrNat(n \div 10), Digit(n % 10))

Str(n) == IF n < 0 THEN <<"-">> \o StrNat(-n) ELSE StrNat(n)

RECURSIVE Zeros(_)
Zeros(k) == IF k <= 0 THEN <<>> ELSE <<"0">> \o Zeros(k - 1)

Zfill(str, width) ==
  IF str # <<>> /\ str[1] = "-"
  THEN <<"-">> \o Zeros(width - Len(str)) \o Tail(str)
  ELSE Zeros(width - Len(str)) \o str

Total(s) == Str(Len(s.paths))

GetIndex(s) == IF s.paths # <<>> THEN Zfill(Str(s.index + 1), Len(Total(s))) ELSE <<"0">>

\* ------------------------------------------------------------------ clamp
None == [given |-> FALSE, val |-> 0]

Some(v) == [given |-> TRUE, val |-> v]

ClampMinLast(value, minimum, maximum) ==
  LET v1 == IF maximum.given THEN Min(value, maximum.val) ELSE value
  IN  IF minimum.given THEN Max(v1, minimum.val) ELSE v1

Clamp(value, minimum, maximum) ==
  LET v1 == IF minimum.given THEN Max(value, minimum.val) ELSE value
  IN  IF maximum.given THEN Min(v1, maximum.val) ELSE v1

\* ---------------------------------------------------------- cached_method
\* the objects that own the decorated method, and what the wrapped function may return
Instances == {"x", "y"}
Values == 0..MaxValue

\* attrs[self] is the attribute attr_name of self: None while self has no such attribute
HasAttrTruthy(attrs, self) == attrs[self].given /\ attrs[self].val # 0

HasAttr(attrs, self) == attrs[self].given

\* inner(*args) on self, where the wrapped function returns v if it is evaluated;
\* evals counts the evaluations of the wrapped function, ret is the value returned
Inner(l, self, args, v) ==
  LET evaluate == ~HasAttr(l.attrs, self)
      attrs == IF evaluate THEN [l.attrs EXCEPT ![self] = Some(v)] ELSE l.attrs
  IN  [l EXCEPT !.attrs = attrs,
                !.evals[self] = IF evaluate THEN @ + 1 ELSE @,
                !.ret = attrs[self].val]

LazyIdle == [attrs |-> [i \in Instances |-> None], evals |-> [i \in Instances |-> 0],
             ret |-> 0, calls |-> 0, self |-> "x", args |-> 0,
             first |-> [i \in Instances |-> None]]

\* ----------------------------------------------------------------- ignore
\* exception classes and the class each derives from
ExcTypes == {"KeyError", "IndexError", "LookupError", "FileNotFoundError", "OSError",
             "InvalidImageDataError", "UnicodeDecodeError", "ValueError"}

Parent == [t \in ExcTypes \cup {"Exception"} |->
             CASE t \in {"KeyError", "IndexError"} -> "LookupError"
               [] t = "FileNotFoundError" -> "OSError"
               [] t \in {"InvalidImageDataError", "UnicodeDecodeError"} -> "ValueError"
               [] OTHER -> "Exception"]

RECURSIVE IsSubclass(_, _)
IsSubclass(t, base) ==
  IF t = base THEN TRUE ELSE IF t = "Exception" THEN FALSE ELSE IsSubclass(Parent[t], base)

\* what `except exceptions` matches
Matches(t, exceptions) == \E base \in exceptions : IsSubclass(t, base)

\* how a block of code ends: it runs to its end, returns a value, or raises
Completed == [kind |-> "completed", type |-> "", val |-> ""]

Returned(v) == [kind |-> "returned", type |-> "", val |-> v]

Raised(t) == [kind |-> "raised", type |-> t, val |-> ""]

IgnoreAll(exceptions, body) ==
  IF body.kind = "raised" THEN Completed ELSE body

\* how `with ignore(*exceptions):` ends when its body ends as body
Ignore(exceptions, body) ==
  IF body.kind = "raised" /\ Matches(body.type, exceptions) THEN Completed ELSE body

ExifIgnored == {"InvalidImageDataError", "FileNotFoundError", "KeyError"}

DateTime == "2019:01:01 00:00:00"

\* exif_date_time(): present tells whether piexif was imported, load how
\* piexif.load(current()) ends, hasKey whether the exif data hold DateTime and
\* decodes whether its bytes decode
ExifDateTime(present, load, hasKey, decodes) ==
  IF present
  THEN LET body == IF load.kind = "raised" THEN load
                   ELSE IF ~hasKey THEN Raised("KeyError")
                   ELSE IF ~decodes THEN Raised("UnicodeDecodeError")
                   ELSE Returned(DateTime)
           block == Ignore(ExifIgnored, body)
       IN  IF block.kind = "completed" THEN Returned("") ELSE block
  ELSE Returned("")

GuardIdle == [op |-> "idle", listed |-> {}, body |-> Completed, block |-> Completed,
              present |-> FALSE, load |-> Completed, result |-> Completed]

\* ---------------------------------------------------------------- state
St == [paths |-> _paths, index |-> _index, emitted |-> <<>>]

\* the call that led to the present state: its arguments, the index before it (pre),
\* whether _on_images_changed passed its directory test (sameDir) and whether
\* shuffle ran, with the arrangement it drew
NoCall == [op |-> "init", index |-> 0, count |-> 0, paths |-> <<>>, focused |-> EmptyStr,
           pre |-> 0, sameDir |-> FALSE, didShuffle |-> FALSE, arrangement |-> <<>>,
           mode |-> "image", incremental |-> FALSE]

\* set when a prev(count) directly follows a next(count): origin is the index before that next
NoBefore == [roundTrip |-> FALSE, origin |-> 0, valid |-> FALSE]

ClampIdle == [calls |-> 0, value |-> 0, minimum |-> None, maximum |-> None,
              result |-> 0, first |-> 0]

Args == (-MaxArg)..MaxArg

\* the indexes of the key bindings "G" and "gg", which a count prefix overrides
BoundIndexes == {-1, 1}

\* the lists of paths an event can carry
PathLists == SeqsUpTo(ListedPaths, MaxLen)

\* the arrangements shuffle can draw when it runs, none when it does not
Draws(runs) == IF runs THEN Arrangements(Len(_paths)) ELSE {<<>>}

Install(t, call) ==
  /\ _paths' = t.paths
  /\ _index' = t.index
  /\ emitted' = t.emitted
  /\ last' = [call EXCEPT !.pre = _index]
  /\ before' = IF call.op = "prev" /\ last.op = "next" /\ last.count = call.count
               THEN [roundTrip |-> TRUE, origin |-> last.pre,
                     valid |-> last.pre \in 0..(Len(_paths) - 1)]
               ELSE NoBefore
  /\ UNCHANGED <<cwd, shuffleSetting, clampCall, lazy, guarded>>

Init ==
  /\ _paths = <<>>
  /\ _index = 0
  /\ cwd \in Dirs
  /\ shuffleSetting \in BOOLEAN
  /\ emitted = <<>>
  /\ last = NoCall
  /\ before = NoBefore
  /\ clampCall = ClampIdle
  /\ lazy = LazyIdle
  /\ guarded = GuardIdle

\* -------------------------------------------------------------- commands
next ==
  \E count \in Args :
    Install(NextCmd(St, count), [NoCall EXCEPT !.op = "next", !.count = count])

prev ==
  \E count \in Args :
    Install(PrevCmd(St, count), [NoCall EXCEPT !.op = "prev", !.count = count])

goto ==
  \E count \in 0..MaxArg :
   \E index \in (IF count = 0 THEN Args ELSE BoundIndexes) :
    Install(Goto(St, index, count), [NoCall EXCEPT !.op = "goto", !.index = index, !.count = count])

\* -------------------------------------------------------------- handlers
\* the search reports the position of a match in the path list
OnNewSearch ==
  \E index \in 0..Max(Len(_paths) - 1, 0), mode \in Modes, incremental \in BOOLEAN :
    Install(NewSearch(St, index, mode, incremental),
            [NoCall EXCEPT !.op = "new_search", !.index = index, !.mode = mode,
                           !.incremental = incremental])

OnSlideshowEvent ==
  Install(NextCmd(St, 1), [NoCall EXCEPT !.op = "slideshow", !.count = 1])

OnOpenNewImage ==
  \E path \in RawPaths :
    LET loads == Abspath(path, cwd) \notin Elems(_paths)
    IN  \E listing \in (IF loads THEN Listings(Dirname(Abspath(path, cwd))) ELSE {<<>>}),
           f \in Draws(shuffleSetting /\ loads) :
          Install(LoadSingle(St, Abspath(path, cwd), listing, cwd, shuffleSetting, f),
                  [NoCall EXCEPT !.op = "open_new_image", !.focused = path, !.paths = listing,
                                 !.didShuffle = shuffleSetting /\ loads, !.arrangement = f])

OnOpenNewImages ==
  \E paths \in PathLists, focused_path \in RawPaths :
    LET single == Len(paths) = 1
        loads == ~single \/ focused_path \notin Elems(_paths)
        dir == IF Dirname(focused_path) = "" THEN cwd ELSE Dirname(focused_path)
    IN  \E listing \in (IF single /\ loads THEN Listings(dir) ELSE {<<>>}),
           f \in Draws(shuffleSetting /\ loads) :
          Install(IF single
                  THEN LoadSingle(St, focused_path, listing, cwd, shuffleSetting, f)
                  ELSE LoadPaths(St, paths, focused_path, cwd, shuffleSetting, f),
                  [NoCall EXCEPT !.op = "open_new_images", !.focused = focused_path,
                                 !.paths = IF single THEN listing ELSE paths,
                                 !.count = Len(paths),
                                 !.didShuffle = shuffleSetting /\ loads, !.arrangement = f])

\* outside the directory of the current image the handler returns before it reads paths
OnImagesChanged ==
  \E paths \in (IF cwd = Dirname(Current(St)) THEN PathLists ELSE {<<>>}) :
    LET sameDir == cwd = Dirname(Current(St))
        loads == sameDir /\ paths # <<>>
    IN  \E f \in Draws(shuffleSetting /\ loads) :
          Install(IF ~sameDir THEN St
                  ELSE IF paths # <<>> THEN LoadPaths(St, paths, Current(St), cwd, shuffleSetting, f)
                  ELSE Clear(St),
                  [NoCall EXCEPT !.op = "images_changed", !.sameDir = sameDir,
                                 !.paths = IF sameDir THEN paths ELSE <<>>,
                                 !.focused = IF loads THEN Current(St) ELSE EmptyStr,
                                 !.didShuffle = shuffleSetting /\ loads, !.arrangement = f])

\* ----------------------------------------------------------- environment
ChangeDirectory ==
  /\ \E d \in Dirs \ {cwd} : cwd' = d
  /\ emitted' = <<>>
  /\ last' = [NoCall EXCEPT !.op = "chdir", !.pre = _index]
  /\ before' = NoBefore
  /\ UNCHANGED <<_paths, _index, shuffleSetting, clampCall, lazy, guarded>>

SetShuffle ==
  /\ shuffleSetting' = ~shuffleSetting
  /\ emitted' = <<>>
  /\ last' = [NoCall EXCEPT !.op = "set_shuffle", !.pre = _index]
  /\ before' = NoBefore
  /\ UNCHANGED <<_paths, _index, cwd, clampCall, lazy, guarded>>

Next ==
  \/ next
  \/ prev
  \/ goto
  \/ OnNewSearch
  \/ OnSlideshowEvent
  \/ OnOpenNewImages
  \/ OnOpenNewImage
  \/ OnImagesChanged
  \/ ChangeDirectory
  \/ SetShuffle

Spec == Init /\ [][Next]_vars

\* ------------------------------------------------------- clamp calls
\* clamp is applied to drawn arguments, then once more to its own result
ClampArgs == {None} \cup {Some(v) : v \in (-ClampRange)..ClampRange}

ClampInit ==
  /\ _paths = <<>>
  /\ _index = 0
  /\ cwd = "d1"
  /\ shuffleSetting = FALSE
  /\ emitted = <<>>
  /\ last = NoCall
  /\ before = NoBefore
  /\ \E value \in (-ClampRange)..ClampRange, minimum \in ClampArgs, maximum \in ClampArgs :
       clampCall = [ClampIdle EXCEPT !.value = value, !.minimum = minimum, !.maximum = maximum]
  /\ lazy = LazyIdle
  /\ guarded = GuardIdle

ClampFirst ==
  /\ clampCall.calls = 0
  /\ LET r == Clamp(clampCall.value, clampCall.minimum, clampCall.maximum)
     IN  clampCall' = [clampCall EXCEPT !.calls = 1, !.result = r, !.first = r]
  /\ UNCHANGED <<storageVars, lazy, guarded>>

ClampAgain ==
  /\ clampCall.calls = 1
  /\ clampCall' = [clampCall EXCEPT !.calls = 2,
                     !.result = Clamp(clampCall.first, clampCall.minimum, clampCall.maximum)]
  /\ UNCHANGED <<storageVars, lazy, guarded>>

ClampNext ==
  \/ ClampFirst
  \/ ClampAgain

SpecClamp == ClampInit /\ [][ClampNext]_vars

\* ------------------------------------------------- cached method calls
\* the decorated method is called on some instance with some argument; first keeps
\* what the wrapped function returned in the first call on each instance
CachedInit ==
  /\ _paths = <<>>
  /\ _index = 0
  /\ cwd = "d1"
  /\ shuffleSetting = FALSE
  /\ emitted = <<>>
  /\ last = NoCall
  /\ before = NoBefore
  /\ clampCall = ClampIdle
  /\ lazy = LazyIdle
  /\ guarded = GuardIdle

CachedCall ==
  /\ lazy.calls < MaxCalls
  /\ \E self \in Instances, args \in Values, v \in Values :
       lazy' = [Inner(lazy, self, args, v) EXCEPT
                  !.calls = @ + 1, !.self = self, !.args = args,
                  !.first[self] = IF lazy.first[self].given THEN @ ELSE Some(v)]
  /\ UNCHANGED <<storageVars, clampCall, guarded>>

SpecCached == CachedInit /\ [][CachedCall]_vars

\* ------------------------------------------------------ guarded blocks
\* a block runs under ignore(*listed), or exif_date_time() is called
IgnoreInit ==
  /\ _paths = <<>>
  /\ _index = 0
  /\ cwd = "d1"
  /\ shuffleSetting = FALSE
  /\ emitted = <<>>
  /\ last = NoCall
  /\ before = NoBefore
  /\ clampCall = ClampIdle
  /\ lazy = LazyIdle
  /\ guarded = GuardIdle

BodyEnds == {Completed, Returned(DateTime)} \cup {Raised(t) : t \in ExcTypes}

IgnoreBlock ==
  /\ \E listed \in {S \in SUBSET ExcTypes : Cardinality(S) <= MaxListed}, body \in BodyEnds :
       guarded' = [GuardIdle EXCEPT !.op = "ignore", !.listed = listed, !.body = body,
                                    !.block = Ignore(listed, body)]
  /\ UNCHANGED <<storageVars, clampCall, lazy>>

ExifDateTimeCall ==
  /\ \E present \in BOOLEAN, load \in {Completed} \cup {Raised(t) : t \in ExcTypes},
        hasKey \in BOOLEAN, decodes \in BOOLEAN :
       guarded' = [GuardIdle EXCEPT !.op = "exif_date_time", !.present = present,
                                    !.load = load,
                                    !.result = ExifDateTime(present, load, hasKey, decodes)]
  /\ UNCHANGED <<storageVars, clampCall, lazy>>

IgnoreNext ==
  \/ IgnoreBlock
  \/ ExifDateTimeCall

SpecIgnore == IgnoreInit /\ [][IgnoreNext]_vars

\* ================================================================ claims
\* the absolute form of a path under the present working directory
MadeAbsolute(path) == IF path[1] = "" THEN <<cwd, path[2]>> ELSE path

\* the last handler replaced the path list (it announced a new list)
Replaced == CountSig(emitted, "new_images_opened") >= 1

ReplacedByOpenOrChange ==
  /\ Replaced
  /\ \/ last.op = "open_new_images" /\ last.count >= 2
     \/ last.op = "open_new_image"
     \/ last.op = "images_changed"

FocusedOfLast == IF last.op = "images_changed" THEN last.focused ELSE MadeAbsolute(last.focused)

\* C1: whenever the path list is non-empty, 0 <= current index < len(path list).
C1_IndexInRange == _paths # <<>> => (0 <= _index /\ _index < Len(_paths))

\* C2 (as stated): whenever the path list is replaced by a new list, the current
\* index is 0 after the replacement.
C2_IndexZeroAfterReplace == ReplacedByOpenOrChange => _index = 0

\* C2 (amended): whenever the path list is replaced by a new list, the current index
\* is the position of the first occurrence of the absolute focused path in the new
\* list when the list holds it, and min(len(new list) - 1, previous index) otherwise.
C2_IndexFocusedAfterReplace ==
  ReplacedByOpenOrChange =>
    IF \E i \in 1..Len(_paths) : _paths[i] = FocusedOfLast
    THEN /\ _index \in 0..(Len(_paths) - 1)
         /\ _paths[_index + 1] = FocusedOfLast
         /\ \A j \in 1.._index : _paths[j] # FocusedOfLast
    ELSE _index = (IF Len(_paths) - 1 <= last.pre THEN Len(_paths) - 1 ELSE last.pre)

C2_Witness ==
  /\ ReplacedByOpenOrChange
  /\ _index = 1
  /\ _paths[2] = FocusedOfLast
  /\ last.pre = 0

\* C3: an images-changed event with an empty image set, received while the working
\* directory is the directory of the current image, clears the storage: the path list
\* is empty, the index is 0, current() is the empty string, and all_images_cleared is
\* emitted exactly once with no new_image_opened and no new_images_opened.
C3_ClearedOnEmptySet ==
  (last.op = "images_changed" /\ last.sameDir /\ last.paths = <<>>) =>
    /\ _paths = <<>>
    /\ _index = 0
    /\ Current(St) = EmptyStr
    /\ CountSig(emitted, "all_images_cleared") = 1
    /\ CountSig(emitted, "new_image_opened") = 0
    /\ CountSig(emitted, "new_images_opened") = 0

C3_Witness ==
  /\ last.op = "images_changed"
  /\ last.sameDir
  /\ last.paths = <<>>
  /\ last.pre = 1
  /\ Len(emitted) = 1

\* C4: every step that changes the stored path list or the current index emits a
\* change signal (new_image_opened, new_images_opened or all_images_cleared) in that
\* same step.
C4_ChangesAnnounced ==
  [][(_paths' # _paths \/ _index' # _index) =>
       \E i \in 1..Len(emitted') :
         emitted'[i].sig \in {"new_image_opened", "new_images_opened", "all_images_cleared"}]_vars

C4_Witness ==
  /\ last.op \in {"next", "prev", "goto", "new_search", "slideshow"}
  /\ last.pre # _index
  /\ CountSig(emitted, "new_image_opened") = 1

\* C5: with shuffle enabled, loading randomizes the list that is loaded: the stored
\* list is the supplied paths (made absolute) in the arrangement the shuffle drew;
\* with shuffle disabled it is the supplied paths in the supplied order.
C5_ShuffleRandomizesLoaded ==
  Replaced =>
    LET supplied == [i \in 1..Len(last.paths) |-> MadeAbsolute(last.paths[i])]
    IN  IF last.didShuffle
        THEN /\ Len(last.arrangement) = Len(supplied)
             /\ Len(_paths) = Len(supplied)
             /\ \A i \in 1..Len(supplied) : _paths[i] = supplied[last.arrangement[i]]
        ELSE _paths = supplied

\* C6: goto is indexed from 1 with -1 meaning the last image; a non-zero count
\* replaces the index argument; opening a path that is already in the list makes
\* that path current through goto.
C6_GotoOneIndexed ==
  /\ (last.op = "goto" /\ _paths # <<>>) =>
       LET n == Len(_paths)
           k == IF last.count # 0 THEN last.count ELSE last.index
       IN  /\ (1 <= k /\ k <= n) => (_index = k - 1 /\ Current(St) = _paths[k])
           /\ k = -1 => (_index = n - 1 /\ Current(St) = _paths[n])
  /\ (last.op = "open_new_image" /\ ~Replaced) =>
       (_index \in 0..(Len(_paths) - 1) /\ _paths[_index + 1] = MadeAbsolute(last.focused))

C6_Witness ==
  /\ last.op = "goto"
  /\ Len(_paths) = 2
  /\ last.count = 2
  /\ last.index = 1
  /\ _index = 1

\* C7: on a non-empty list of n paths with a valid index i, next(count) sets the index
\* to (i + count) mod n and prev(count) to (i - count) mod n, and prev(count) directly
\* after next(count) restores i.
C7_NextPrevWrap ==
  LET n == Len(_paths)
      valid == last.pre \in 0..(n - 1)
      Congruent(a, b) == \E q \in (-(MaxArg + 1))..(MaxArg + 1) : a = b + q * n
  IN  /\ (last.op \in {"next", "slideshow"} /\ valid) =>
           (_index \in 0..(n - 1) /\ Congruent(_index, last.pre + last.count))
      /\ (last.op = "prev" /\ valid) =>
           (_index \in 0..(n - 1) /\ Congruent(_index, last.pre - last.count))
      /\ (before.roundTrip /\ before.valid) => _index = before.origin

C7_Witness ==
  /\ last.op = "prev"
  /\ before.roundTrip
  /\ before.valid
  /\ last.count = 1
  /\ Len(_paths) = 3
  /\ before.origin = 2
  /\ last.pre = 0

\* the number a string of decimal digits denotes
RECURSIVE DecValue(_)
DecValue(str) ==
  IF str = <<>> THEN 0
  ELSE 10 * DecValue(SubSeq(str, 1, Len(str) - 1))
       + (CHOOSE d \in 0..9 : Digit(d) = str[Len(str)])

IsDecimal(str) == str # <<>> /\ \A i \in 1..Len(str) : \E d \in 0..9 : Digit(d) = str[i]

\* C8: get_index() is the 1-based position of the current image, zero-padded to the
\* number of digits of total(); it is "0" exactly when the list is empty, and then
\* current() is the empty string.
C8_GetIndexIsPosition ==
  LET g == GetIndex(St)
  IN  /\ _paths # <<>> =>
           /\ IsDecimal(g)
           /\ Len(g) = Len(Total(St))
           /\ \E p \in 1..Len(_paths) : DecValue(g) = p /\ Current(St) = _paths[p]
      /\ (g = <<"0">>) <=> (_paths = <<>>)
      /\ _paths = <<>> => Current(St) = EmptyStr

\* C9: after an open-new-images event with two or more paths one of which is
\* focused_path, the stored list is the supplied paths made absolute, current() is the
\* absolute focused_path, and new_images_opened is emitted exactly once, with that list.
C9_OpenNewImagesFocuses ==
  (last.op = "open_new_images" /\ last.count >= 2
     /\ \E i \in 1..Len(last.paths) : last.paths[i] = last.focused) =>
    /\ Len(_paths) = Len(last.paths)
    /\ \A i \in 1..Len(_paths) : _paths[i] = MadeAbsolute(last.paths[i])
    /\ Current(St) = MadeAbsolute(last.focused)
    /\ CountSig(emitted, "new_images_opened") = 1
    /\ \A i \in 1..Len(emitted) :
         emitted[i].sig = "new_images_opened" => emitted[i].paths = _paths

C9_Witness ==
  /\ last.op = "open_new_images"
  /\ last.paths = <<<<"d1", "a">>, <<"", "b">>>>
  /\ last.focused = <<"", "b">>
  /\ cwd = "d2"
  /\ _paths = <<<<"d1", "a">>, <<"d2", "b">>>>
  /\ _index = 1

\* C10 (as stated): for every choice of bounds the result of clamp is not below
\* minimum when minimum is given and not above maximum when maximum is given.
C10_ClampWithinAnyBounds ==
  clampCall.calls >= 1 =>
    /\ clampCall.minimum.given => clampCall.result >= clampCall.minimum.val
    /\ clampCall.maximum.given => clampCall.result <= clampCall.maximum.val

\* C10 (amended): the result of clamp is not above maximum when maximum is given, and
\* not below minimum when minimum is given and maximum is absent or not below minimum;
\* a value within the given bounds is returned unchanged, and clamp is idempotent.
C10_ClampWithinOrderedBounds ==
  LET c == clampCall
      ordered == ~(c.minimum.given /\ c.maximum.given) \/ c.minimum.val <= c.maximum.val
      within == /\ c.minimum.given => c.value >= c.minimum.val
                /\ c.maximum.given => c.value <= c.maximum.val
  IN  /\ c.calls >= 1 =>
           /\ c.maximum.given => c.result <= c.maximum.val
           /\ (c.minimum.given /\ ordered) => c.result >= c.minimum.val
      /\ (c.calls = 1 /\ within) => c.result = c.value
      /\ c.calls = 2 => c.result = c.first

C10_Witness ==
  /\ clampCall.calls = 2
  /\ clampCall.minimum = Some(-1)
  /\ clampCall.maximum = Some(1)
  /\ clampCall.value = 2
  /\ clampCall.result = 1

\* C13: a new-search event that is incremental, is for another mode than the image
\* mode, or arrives while the path list is empty leaves the path list and the index
\* unchanged and emits no signal; a search that changes the selection is therefore a
\* non-incremental image-mode search on a non-empty list, and it selects its index.
C13_SearchFrame ==
  [][last'.op = "new_search" =>
       IF last'.incremental \/ last'.mode # "image" \/ _paths = <<>>
       THEN _paths' = _paths /\ _index' = _index /\ emitted' = <<>>
       ELSE _paths' = _paths /\ _index' = last'.index]_vars

C13_Witness ==
  /\ last.op = "new_search"
  /\ last.incremental
  /\ last.mode = "image"
  /\ Len(_paths) = 2
  /\ last.index = 1
  /\ _index = 0
  /\ emitted = <<>>

Bases(t) == {t, Parent[t], Parent[Parent[t]]}

\* C12: under ignore(*exceptions) a body that raises an exception of a listed type
\* (a listed class or a class derived from one) ends the block normally, so execution
\* continues after it; any other exception propagates, and a body that does not raise
\* ends as it would without the block.  exif_date_time() returns the empty string
\* when piexif is absent or piexif.load raises InvalidImageDataError,
\* FileNotFoundError or KeyError.
C12_IgnoreSuppressesListed ==
  /\ guarded.op = "ignore" =>
       IF guarded.body.kind = "raised"
       THEN IF Bases(guarded.body.type) \cap guarded.listed # {}
            THEN guarded.block.kind = "completed"
            ELSE guarded.block = guarded.body
       ELSE guarded.block = guarded.body
  /\ (guarded.op = "exif_date_time"
        /\ (~guarded.present
             \/ (guarded.load.kind = "raised"
                 /\ guarded.load.type \in {"InvalidImageDataError", "FileNotFoundError", "KeyError"}))) =>
       (guarded.result.kind = "returned" /\ guarded.result.val = "")

C12_Witness ==
  /\ guarded.op = "exif_date_time"
  /\ guarded.present
  /\ guarded.load.kind = "raised"
  /\ guarded.load.type = "FileNotFoundError"
  /\ guarded.result.kind = "returned"
  /\ guarded.result.val = ""

\* with or without the shuffle setting, a load stores the supplied paths in the supplied order
LoadKeepsSuppliedOrder ==
  Replaced => _paths = [i \in 1..Len(last.paths) |-> MadeAbsolute(last.paths[i])]

====
